---- MODULE Spec2Model ----
(***************************************************************************)
(* RealBasicVSRNet (realbasicvsr/models/backbones/real_basicvsr_net.py):   *)
(* the image-cleaning refinement loop of forward, the value forward        *)
(* returns, construction (requires_grad flags) and init_weights.           *)
(*                                                                         *)
(* Tensors are records [shape, data, scale]: data is the row-major         *)
(* (contiguous) storage, shape the sizes of the leading (batch, time)      *)
(* axes; one frame (c x h x w) is abstracted to a single intensity on the  *)
(* 0..255 scale, i.e. the integer k stands for the value k / 255.          *)
(* Arithmetic is exact (rationals), floating-point rounding is not         *)
(* modelled.                                                               *)
(***************************************************************************)
EXTENDS Integers, Sequences, FiniteSets, TLC

\* ------------------------------------------------------------------ bounds
MaxFrames == 4          \* a clip has n * t <= MaxFrames frames
MaxThres == 2           \* the dynamic_refine_thres argument is 0..MaxThres
MaxLoads == 2           \* init_weights is called at most MaxLoads times
MaxSteps == 2           \* at most MaxSteps optimizer steps

\* ------------------------------------------------------- program constants
\* one iteration too many: range(0, 4)
NumCleaningOffByOne == 3 + 1

NumCleaning == 3        \* range(0, 3)
ThresScale == 255       \* dynamic_refine_thres / 255.
UpscaleFactor == 4      \* "Support only x4 upsampling"

\* frame intensities: a frame is dark (0) or bright (1), so a residue is
\* -1, 0 or 1 and cleaning keeps every frame within the two levels
Pix == {0, 1}

\* the cleaning network's parameters: the frame it restores each frame to
Weights == [Pix -> Pix]

Shapes == {s \in (1..MaxFrames) \X (1..MaxFrames) : s[1] * s[2] <= MaxFrames}

Tensor(shape, data) == [shape |-> shape, data |-> data, scale |-> 1]

NoTensor == Tensor(<<>>, <<>>)

Clips == UNION {{Tensor(s, d) : d \in [1..(s[1] * s[2]) -> Pix]} : s \in Shapes}

\* values a caller may pass as init_weights' pretrained argument
Pretrained == {[type |-> "str", value |-> "ckpt.pth"],
               [type |-> "NoneType", value |-> "None"],
               [type |-> "int", value |-> "0"],
               [type |-> "PosixPath", value |-> "ckpt.pth"]}

NoError == [type |-> "None", received |-> ""]

VARIABLES
    dynamic_refine_thres,    \* self.dynamic_refine_thres, a rational [num, den]
    is_sequential_cleaning,  \* self.is_sequential_cleaning
    image_cleaning,          \* parameters of self.image_cleaning
    basicvsr,                \* parameters of self.basicvsr: [body, spynet]
    requires_grad,           \* requires_grad of each parameter group
    ctor,                    \* the arguments the module was constructed with
    clip,                    \* the tensor object the caller passed to forward
    clip0,                   \* its values when forward was called
    pc,                      \* position in forward
    lqs,                     \* forward's local lqs
    aliased,                 \* lqs shares its storage with the caller's tensor
    it,                      \* loop variable of "for _ in range(0, 3)"
    residues,                \* forward's local residues
    return_lqs,              \* forward's argument
    outputs,                 \* forward's local outputs
    result,                  \* what forward returned: <<>> is None
    events,                  \* calls made by forward: cleaning passes, basicvsr
    loader_calls,            \* calls of load_checkpoint(self, path, strict)
    raised,                  \* exception raised by the last init_weights
    last_init,               \* the last init_weights call: its arguments
    steps                    \* optimizer steps applied so far

vars == <<dynamic_refine_thres, is_sequential_cleaning, image_cleaning, basicvsr,
          requires_grad, ctor, clip, clip0, pc, lqs, aliased, it, residues,
          return_lqs, outputs, result, events, loader_calls, raised, last_init,
          steps>>

configVars == <<dynamic_refine_thres, is_sequential_cleaning, requires_grad, ctor>>

moduleVars == <<configVars, image_cleaning, basicvsr>>

lifeVars == <<loader_calls, raised, last_init, steps>>

callVars == <<clip, clip0, pc, lqs, aliased, it, residues, return_lqs, outputs,
              result, events>>

\* ------------------------------------------------------------ tensor model
Numel(x) == Len(x.data)

\* offset of element [b, i] of a contiguous (n, t) tensor
Offset(shape, b, i) == (b - 1) * shape[2] + i

\* x.view(-1, c, h, w): same storage, (n, t) merged into one axis
ViewFlat(x) == [x EXCEPT !.shape = <<Numel(x)>>]

\* x.view(n, t, c, h, w): same storage, leading axis split into (n, t)
ViewClip(x, n, t) == [x EXCEPT !.shape = <<n, t>>]

\* lqs[:, i, :, :, :]: the frames at time i of every batch entry
Select(x, i) ==
    Tensor(<<x.shape[1]>>, [b \in 1..x.shape[1] |-> x.data[Offset(x.shape, b, i)]])

\* lqs[:, i, :, :, :] += r, in place
AddAt(x, i, r) ==
    [x EXCEPT !.data = [k \in 1..Numel(x) |->
        IF \E b \in 1..x.shape[1] : k = Offset(x.shape, b, i)
        THEN x.data[k] + r.data[((k - i) \div x.shape[2]) + 1]
        ELSE x.data[k]]]

\* lqs + residues: a new tensor
Add(x, r) == [x EXCEPT !.data = [k \in 1..Numel(x) |-> x.data[k] + r.data[k]]]

\* torch.stack(list, dim=1) of t tensors of shape (n)
Stack(list) ==
    LET n == list[1].shape[1]
        t == Len(list)
    IN  Tensor(<<n, t>>, [k \in 1..(n * t) |->
            list[((k - 1) % t) + 1].data[((k - 1) \div t) + 1]])

Abs(v) == IF v < 0 THEN -v ELSE v

RECURSIVE SumAbs(_)
SumAbs(s) == IF s = <<>> THEN 0 ELSE Abs(Head(s)) + SumAbs(Tail(s))

\* torch.sum in place of torch.mean
MeanAbsAsSum(r) == [num |-> SumAbs(r.data), den |-> ThresScale]

\* torch.mean(torch.abs(residues)), as a rational of the [0, 1] scale
MeanAbs(r) == [num |-> SumAbs(r.data), den |-> ThresScale * Numel(r)]

Less(p, q) == p.num * q.den < q.num * p.den

\* self.image_cleaning(frames): the residue of every frame of the batch
ImageCleaning(w, frames) ==
    [frames EXCEPT !.data = [k \in 1..Numel(frames) |-> w[frames.data[k]] - frames.data[k]]]

\* ------------------------------------------------------ the cleaning pass
\* the loop body of the sequential strategy, from time step i on
RECURSIVE SequentialFrames(_, _, _, _)
SequentialFrames(w, x, list, i) ==
    IF i > x.shape[2]
    THEN [lqs |-> x, residues |-> Stack(list)]
    ELSE LET residue_i == ImageCleaning(w, Select(x, i))
         IN  SequentialFrames(w, AddAt(x, i, residue_i), Append(list, residue_i), i + 1)

\* "lqs[:, i] + residue_i": the sum is computed and dropped
RECURSIVE SequentialFramesNoWrite(_, _, _, _)
SequentialFramesNoWrite(w, x, list, i) ==
    IF i > x.shape[2]
    THEN [lqs |-> x, residues |-> Stack(list)]
    ELSE LET residue_i == ImageCleaning(w, Select(x, i))
         IN  SequentialFramesNoWrite(w, x, Append(list, residue_i), i + 1)

CleanSequentialNoWrite(w, x) == SequentialFramesNoWrite(w, x, <<>>, 1)

CleanSequential(w, x) == SequentialFrames(w, x, <<>>, 1)

\* the residues replace the clip instead of being added to it
CleanBatchedNoAdd(w, x) ==
    LET flat == ViewFlat(x)
        res == ImageCleaning(w, flat)
    IN  [lqs |-> ViewClip(res, x.shape[1], x.shape[2]), residues |-> res]

CleanBatched(w, x) ==
    LET flat == ViewFlat(x)
        res == ImageCleaning(w, flat)
    IN  [lqs |-> ViewClip(Add(flat, res), x.shape[1], x.shape[2]), residues |-> res]

ShouldBreakLessEqual(r, thres) == ~Less(thres, MeanAbs(r))

ShouldBreakGreater(r, thres) == Less(thres, MeanAbs(r))

\* "if torch.mean(torch.abs(residues)) < self.dynamic_refine_thres: break"
ShouldBreak(r, thres) == Less(MeanAbs(r), thres)

\* iteration i (0-based) was the last one: break, or range(0, 3) is exhausted
LoopEnds(r, thres, i) == ShouldBreak(r, thres) \/ i + 1 >= NumCleaning

\* the refinement loop as a function of the clip: the cleaned clip and the
\* number of passes, from iteration i on
RECURSIVE ForwardLoop(_, _, _, _, _)
ForwardLoop(seq, w, thres, x, i) ==
    LET p == IF seq THEN CleanSequential(w, x) ELSE CleanBatched(w, x)
    IN  IF LoopEnds(p.residues, thres, i)
        THEN [lqs |-> p.lqs, passes |-> i + 1]
        ELSE ForwardLoop(seq, w, thres, p.lqs, i + 1)

\* outputs = self.basicvsr(lqs): the propagation network, x4
BasicVSR(x) == [x EXCEPT !.scale = UpscaleFactor]

\* the value forward hands back to its caller: <<>> is None
ReturnValue(flag, out, cleaned) == IF flag THEN <<>> ELSE <<out>>

\* ------------------------------------------------------------ construction
CtorArgs == [dynamic_refine_thres : 0..MaxThres,
             is_fix_cleaning : BOOLEAN,
             is_sequential_cleaning : BOOLEAN]

\* the flow estimator is left trainable
ConstructSpynetTrainable(args) ==
    [dynamic_refine_thres |-> [num |-> args.dynamic_refine_thres, den |-> ThresScale],
     is_sequential_cleaning |-> args.is_sequential_cleaning,
     requires_grad |-> [image_cleaning |-> ~args.is_fix_cleaning,
                        basicvsr |-> TRUE,
                        spynet |-> TRUE]]

Construct(args) ==
    [dynamic_refine_thres |-> [num |-> args.dynamic_refine_thres, den |-> ThresScale],
     is_sequential_cleaning |-> args.is_sequential_cleaning,
     requires_grad |-> [image_cleaning |-> ~args.is_fix_cleaning,
                        basicvsr |-> TRUE,
                        spynet |-> FALSE]]

Init ==
    /\ \E args \in CtorArgs :
        /\ ctor = args
        /\ dynamic_refine_thres = Construct(args).dynamic_refine_thres
        /\ is_sequential_cleaning = Construct(args).is_sequential_cleaning
        /\ requires_grad = Construct(args).requires_grad
    /\ image_cleaning \in Weights
    /\ basicvsr = [body |-> 0, spynet |-> 0]
    /\ clip = NoTensor
    /\ clip0 = NoTensor
    /\ pc = "idle"
    /\ lqs = NoTensor
    /\ aliased = FALSE
    /\ it = 0
    /\ residues = NoTensor
    /\ return_lqs = FALSE
    /\ outputs = NoTensor
    /\ result = <<>>
    /\ events = <<>>
    /\ loader_calls = <<>>
    /\ raised = NoError
    /\ last_init = [called |-> FALSE, pretrained |-> [type |-> "NoneType", value |-> "None"],
                    strict |-> TRUE, loads_before |-> 0]
    /\ steps = 0

\* ------------------------------------------------------------------ forward
\* forward(x, flag) starts: lqs is bound to the caller's tensor object
Enter(x, flag) ==
    /\ clip' = x
    /\ clip0' = x
    /\ lqs' = x
    /\ aliased' = TRUE
    /\ it' = 0
    /\ residues' = NoTensor
    /\ return_lqs' = flag
    /\ outputs' = NoTensor
    /\ result' = <<>>
    /\ events' = <<>>
    /\ pc' = "loop"
    /\ UNCHANGED <<moduleVars, lifeVars>>

\* the first call, with a clip the caller has just built
Call(x, flag) ==
    /\ pc = "idle"
    /\ Enter(x, flag)

\* a later call, with the same clip object as the call before
CallAgain(flag) ==
    /\ pc = "done"
    /\ Enter(clip, flag)

\* after the pass: break, or the range is exhausted, or the next iteration
AfterPass(r) ==
    /\ residues' = r
    /\ IF LoopEnds(r, dynamic_refine_thres, it)
       THEN pc' = "sr" /\ it' = it
       ELSE pc' = "loop" /\ it' = it + 1

PassSequential ==
    /\ pc = "loop"
    /\ is_sequential_cleaning
    /\ LET p == CleanSequential(image_cleaning, lqs)
       IN  /\ lqs' = p.lqs
           /\ clip' = IF aliased THEN p.lqs ELSE clip
           /\ events' = Append(events, [op |-> "clean", input |-> lqs,
                                        residues |-> p.residues, output |-> p.lqs])
           /\ AfterPass(p.residues)
    /\ UNCHANGED <<moduleVars, lifeVars, clip0, aliased, return_lqs, outputs, result>>

PassBatched ==
    /\ pc = "loop"
    /\ ~is_sequential_cleaning
    /\ LET p == CleanBatched(image_cleaning, lqs)
       IN  /\ lqs' = p.lqs
           /\ aliased' = FALSE
           /\ events' = Append(events, [op |-> "clean", input |-> lqs,
                                        residues |-> p.residues, output |-> p.lqs])
           /\ AfterPass(p.residues)
    /\ UNCHANGED <<moduleVars, lifeVars, clip, clip0, return_lqs, outputs, result>>

SuperResolution ==
    /\ pc = "sr"
    /\ outputs' = BasicVSR(lqs)
    /\ events' = Append(events, [op |-> "basicvsr", input |-> lqs,
                                 residues |-> NoTensor, output |-> BasicVSR(lqs)])
    /\ pc' = "ret"
    /\ UNCHANGED <<moduleVars, lifeVars, clip, clip0, lqs, aliased, it, residues,
                   return_lqs, result>>

Return ==
    /\ pc = "ret"
    /\ result' = ReturnValue(return_lqs, outputs, lqs)
    /\ pc' = "done"
    /\ UNCHANGED <<moduleVars, lifeVars, clip, clip0, lqs, aliased, it, residues,
                   return_lqs, outputs, events>>

\* forward on a module with any parameters, under either strategy
Next ==
    \/ \E x \in Clips, flag \in BOOLEAN : Call(x, flag)
    \/ \E flag \in BOOLEAN : CallAgain(flag)
    \/ PassSequential
    \/ PassBatched
    \/ SuperResolution
    \/ Return

Spec == Init /\ [][Next]_vars

\* ----------------------------------------------- init_weights and training
\* every non-str argument is taken as "no weights": the elif branch is lost
InitWeightsOutcomeNoRaise(pretrained, strict) ==
    IF pretrained.type = "str"
    THEN [loads |-> <<[path |-> pretrained.value, strict |-> strict]>>, raised |-> NoError]
    ELSE [loads |-> <<>>, raised |-> NoError]

\* what init_weights(pretrained, strict) does: the load_checkpoint calls it
\* makes and the exception it raises
InitWeightsOutcome(pretrained, strict) ==
    IF pretrained.type = "str"
    THEN [loads |-> <<[path |-> pretrained.value, strict |-> strict]>>, raised |-> NoError]
    ELSE IF pretrained.type # "NoneType"
         THEN [loads |-> <<>>,
               raised |-> [type |-> "TypeError", received |-> pretrained.type]]
         ELSE [loads |-> <<>>, raised |-> NoError]

InitWeights(pretrained, strict) ==
    /\ pc = "idle"
    /\ Len(loader_calls) < MaxLoads
    /\ LET o == InitWeightsOutcome(pretrained, strict)
       IN  /\ loader_calls' = loader_calls \o o.loads
           /\ raised' = o.raised
           /\ last_init' = [called |-> TRUE, pretrained |-> pretrained,
                            strict |-> strict, loads_before |-> Len(loader_calls)]
           \* load_checkpoint assigns the checkpoint's values to the parameters
           /\ IF o.loads # <<>>
              THEN /\ image_cleaning' \in Weights
                   /\ basicvsr' = [body |-> 0, spynet |-> 0]
              ELSE UNCHANGED <<image_cleaning, basicvsr>>
    /\ UNCHANGED <<configVars, callVars, steps>>

\* one update of the parameters by an optimizer: the groups that require a
\* gradient change, the others keep their values
OptimizerStep ==
    /\ pc = "idle"
    /\ steps < MaxSteps
    /\ steps' = steps + 1
    /\ IF requires_grad.image_cleaning
       THEN image_cleaning' \in Weights \ {image_cleaning}
       ELSE UNCHANGED image_cleaning
    /\ basicvsr' =
         [body |-> IF requires_grad.basicvsr
                   THEN (basicvsr.body + 1) % (MaxSteps + 1) ELSE basicvsr.body,
          spynet |-> IF requires_grad.spynet
                     THEN (basicvsr.spynet + 1) % (MaxSteps + 1) ELSE basicvsr.spynet]
    /\ UNCHANGED <<configVars, callVars, loader_calls, raised, last_init>>

NextLife ==
    \/ \E p \in Pretrained, strict \in BOOLEAN : InitWeights(p, strict)
    \/ OptimizerStep

SpecLife == Init /\ [][NextLife]_vars


\* ------------------------------------------------------------------ claims
CleanEvents == SelectSeq(events, LAMBDA e : e.op = "clean")

PropagationEvents == SelectSeq(events, LAMBDA e : e.op = "basicvsr")

\* cleaning passes applied so far in this call
Passes == Len(CleanEvents)

\* the propagation network has been invoked in this call
Propagated == PropagationEvents # <<>>

\* the clip handed to the propagation network
Handed == PropagationEvents[1].input

LastResidues == CleanEvents[Passes].residues

AbsTotal(d) ==
    LET RECURSIVE upto(_)
        upto(k) == IF k = 0 THEN 0
                   ELSE upto(k - 1) + (IF d[k] < 0 THEN 0 - d[k] ELSE d[k])
    IN  upto(Len(d))

\* the mean absolute value of d is strictly below the configured threshold,
\* both taken on the 0..255 scale
BelowConfigured(d) == AbsTotal(d) < ctor.dynamic_refine_thres * Len(d)

\* the residue the cleaning network gives for each frame of the input clip
FirstResidue == [k \in 1..Len(clip0.data) |-> image_cleaning[clip0.data[k]] - clip0.data[k]]

\* C1: in every forward call the number of cleaning passes applied before the
\* propagation network is invoked is at least 1 and at most 3.
C1_PassesBetweenOneAndThree ==
    /\ Passes <= 3
    /\ (pc = "sr" \/ Propagated) => Passes >= 1

C1_Witness == Propagated /\ Passes = 3 /\ pc = "done"

\* C2 as stated: the clip handed to the propagation network always has a
\* last-pass mean absolute residue below the threshold, within 3 passes.
C2_Original == Propagated => (BelowConfigured(LastResidues.data) /\ Passes <= 3)

\* C2 amended: the clip handed to the propagation network is the output of the
\* last pass, at most 3 passes were applied, and the last-pass mean absolute
\* residue is below the threshold unless all 3 passes were used.
C2_Amended ==
    Propagated =>
        /\ Passes \in 1..3
        /\ Handed = CleanEvents[Passes].output
        /\ (BelowConfigured(LastResidues.data) \/ Passes = 3)

C2_Witness == Propagated /\ Passes = 3 /\ ~BelowConfigured(LastResidues.data)

\* C3: with return_lqs set forward returns the upscaled clip and the cleaned
\* clip; without it, the upscaled clip alone.
C3_ReturnsBoth ==
    pc = "done" => result = IF return_lqs THEN <<outputs, lqs>> ELSE <<outputs>>

\* C4: for the same clip, weights and threshold, the sequential and the
\* batched strategy perform the same number of passes and hand the same
\* cleaned clip to the propagation network.
C4_StrategiesAgree ==
    Propagated =>
        LET other == ForwardLoop(~is_sequential_cleaning, image_cleaning,
                                 dynamic_refine_thres, clip0, 0)
        IN  /\ other.passes = Passes
            /\ other.lqs = Handed

C4_Witness ==
    /\ Propagated
    /\ Passes >= 2
    /\ clip0.shape = <<2, 2>>
    /\ Handed # clip0

\* C5: if the first pass's mean absolute residue over the whole clip is
\* strictly below the threshold, the loop ends after exactly 1 pass and the
\* propagation network gets the input clip plus the first-pass residue.
C5_EarlyExit ==
    (Propagated /\ BelowConfigured(FirstResidue)) =>
        /\ Passes = 1
        /\ Handed.shape = clip0.shape
        /\ Handed.data = [k \in 1..Len(clip0.data) |-> clip0.data[k] + FirstResidue[k]]

C5_Witness ==
    /\ Propagated
    /\ BelowConfigured(FirstResidue)
    /\ AbsTotal(FirstResidue) > 0

\* C6: with a threshold of 0, forward performs the full 3 passes under either
\* strategy whenever the residues of its passes are nonzero.
C6_ZeroThresholdRunsThree ==
    (/\ Propagated
     /\ ctor.dynamic_refine_thres = 0
     /\ \A k \in 1..Passes : AbsTotal(CleanEvents[k].residues.data) > 0)
        => Passes = 3

C6_Witness ==
    /\ Propagated
    /\ ctor.dynamic_refine_thres = 0
    /\ \A k \in 1..Passes : AbsTotal(CleanEvents[k].residues.data) > 0
    /\ is_sequential_cleaning

\* C7: init_weights with a pretrained argument that is neither a str nor None
\* raises a TypeError naming the received type and never calls the loader;
\* with None it neither raises nor loads; with a str it calls the loader
\* exactly once, with the given path and strict flag.
C7_InitWeights ==
    last_init.called =>
        LET made == SubSeq(loader_calls, last_init.loads_before + 1, Len(loader_calls))
        IN  CASE last_init.pretrained.type = "str" ->
                    /\ made = <<[path |-> last_init.pretrained.value,
                                 strict |-> last_init.strict]>>
                    /\ raised = NoError
              [] last_init.pretrained.type = "NoneType" ->
                    /\ made = <<>>
                    /\ raised = NoError
              [] OTHER ->
                    /\ made = <<>>
                    /\ raised.type = "TypeError"
                    /\ raised.received = last_init.pretrained.type

C7_Witness ==
    /\ last_init.called
    /\ last_init.pretrained.type = "PosixPath"
    /\ raised.type = "TypeError"
    /\ loader_calls # <<>>

\* C8: after a forward call the clip object the caller passed in holds the
\* same values as before the call, under either strategy.
C8_CallerClipUntouched == pc # "idle" => clip = clip0

\* C9: the flow estimator is never trainable, the cleaning module is
\* trainable exactly when is_fix_cleaning is not set, the rest of the
\* propagation network is trainable; so an optimizer step leaves the flow
\* estimator alone, leaves the cleaning parameters alone when is_fix_cleaning
\* is set, and changes the other propagation parameters.
C9_Freezing ==
    /\ [](/\ ~requires_grad.spynet
          /\ requires_grad.image_cleaning = ~ctor.is_fix_cleaning
          /\ requires_grad.basicvsr)
    /\ [][steps' # steps =>
            /\ basicvsr'.spynet = basicvsr.spynet
            /\ basicvsr'.body # basicvsr.body
            /\ (ctor.is_fix_cleaning => image_cleaning' = image_cleaning)]_vars

C9_Witness == steps > 0 /\ ctor.is_fix_cleaning

\* C10: the propagation network is invoked exactly once per forward call,
\* after the last cleaning pass and on that pass's output; each pass reads
\* the output of the pass before it (the first reads the input clip) and
\* yields its input plus the residue; no pass follows the propagation.
C10_PropagationOnceAfterCleaning ==
    /\ Len(PropagationEvents) <= 1
    /\ pc = "done" => Len(PropagationEvents) = 1
    /\ Propagated =>
        /\ events[Len(events)].op = "basicvsr"
        /\ Passes >= 1
        /\ Handed = CleanEvents[Passes].output
    /\ \A k \in 1..Passes :
        LET e == CleanEvents[k]
        IN  /\ e.input = IF k = 1 THEN clip0 ELSE CleanEvents[k - 1].output
            /\ e.output.shape = e.input.shape
            /\ e.output.data = [j \in 1..Len(e.input.data) |->
                    e.input.data[j] + (image_cleaning[e.input.data[j]] - e.input.data[j])]

C10_Witness ==
    /\ pc = "done"
    /\ Passes = 2
    /\ CleanEvents[1].output # clip0
    /\ ~is_sequential_cleaning
====
